---- MODULE Spec2Model ----
(***************************************************************************)
(* Model of the chat bridge: the event dispatcher (events.py), the two     *)
(* platform adapters and their destination workers (discord.py,            *)
(* ircclient.py), the supervised daemon threads (utils.py) and the start   *)
(* up sequence with its logging handler (__main__.py).                     *)
(***************************************************************************)
EXTENDS Integers, Sequences, FiniteSets, TLC

\* ------------------------------------------------------------------ bounds
\* Number of notifications from outside that the process answers with a log
\* record or an event in one behaviour: platform notifications and SIGHUPs.
MaxEvents == 2
\* Nesting depth of dispatch calls at which the interpreter raises
\* RecursionError (stands for sys.getrecursionlimit() frames).
RecursionLimit == 3
\* Number of targets a Dispatcher under test holds.
MaxTargets == 3
\* Number of dispatch calls made on a Dispatcher under test.
MaxCalls == 2
\* Length of the text of an IRC message that is formatted (its formatting
\* codes apart) and number of the chunks Tags.parse cuts it into.
MaxText == 2
MaxChunks == 1

\* Length of an IRC text that holds Discord markup characters as plain text.
MaxMarkup == 3

\* Length of the text of an IRC line that is relayed to Discord.
MaxWhat == 4

\* Length of the text in which IRC nicknames are looked for, and number of
\* nicknames of the users in the IRC channel.
MaxLine == 4
MaxNicks == 2

\* Number of fragments (words, mention tokens, emoji) of the content of a
\* Discord message that is relayed to IRC.
MaxContent == 2

\* ------------------------------------------------------------- event types
InternalLogTYPE == "internal_log"
ConfigReloadTYPE == "config_reload"
IRCMessageTYPE == "irc_message"
DiscordMessageTYPE == "discord_message"
DiscordMessageEditTYPE == "discord_message_edit"
DiscordMessageDeleteTYPE == "discord_message_delete"
DiscordReactionAddTYPE == "discord_reaction_add"

\* The two modules of main()'s list, in its order; each names its destination.
Modules == <<"discord", "ircclient">>
Dests == {"discord", "ircclient"}

\* Identities a platform notification can come from: the bridge's own user,
\* a user of cfg.ignore_users, any other user.
Users == {"bot", "ign", "usr"}
IgnoreUsers == {"ign"}
\* The users an audit-log entry names as the deleter, the users that add a
\* reaction, the senders of IRC lines.
AuditUsers == {"usr"}
ReactionUsers == {"usr"}
IrcUsers == {"ign", "usr"}
\* Where a notification comes from: the configured channel, another channel,
\* or (an IRC action) the bridge's own nick as the target.
CfgChannel == "cfg"
Channels == {"cfg", "other"}
ActionTargets == {"cfg", "other", "botnick"}

\* A dict without the key "source".
NoKey == "nokey"

\* No text function is being called; what ret holds before the call has
\* returned (no text: a text is a sequence of characters).
NoCall == [f |-> "none"]
NotReturned == <<"pending">>

\* ------------------------------------------------------------------- state
VARIABLES
    cfg,        \* cfg[m]: module m has a configuration section
    handler,    \* the EventLoggingHandler is installed on the root logger
    targets,    \* Dispatcher.targets, a list
    pcMain,     \* where main() stands
    bots,       \* modules whose adapter thread was started
    worker,     \* worker[d]: state of destination d's DaemonThread
    cur,        \* cur[d]: id and type of the event the worker of d is relaying
    queue,      \* queue[t]: the queue.Queue of target t
    stack,      \* stack[th]: dispatch calls of thread th, the running one first
    raised,     \* threads out of whose dispatch call an exception came
    nextId,     \* number of the next notification from outside, the id of its event
    pushed,     \* history: pushed[t], ids in the order they were put on queue[t]
    deq,        \* history: deq[d], ids in the order the worker of d got them
    offered,    \* history: offers of the test caller's current call, in order
    calls,      \* history: the events the test caller has dispatched, in order
    args,       \* the call of a text function under check: its name, its arguments
    ret         \* what that call returned, NotReturned before it has

vars == <<cfg, handler, targets, pcMain, bots, worker, cur, queue, stack, raised,
          nextId, pushed, deq, offered, calls, args, ret>>

\* Test targets for a Dispatcher under test: one that takes everything, one that
\* is the base class (accepts nothing), one whose accept_event raises, one
\* whose push_event raises.
TestTargets == {"t_all", "t_all2", "t_base", "t_accept_raises", "t_push_raises"}
AllTargets == Dests \cup TestTargets

Threads == {"main", "discord_bot", "ircclient_bot", "discord_worker",
            "ircclient_worker", "caller"}
BotThread(m) == IF m = "discord" THEN "discord_bot" ELSE "ircclient_bot"
WorkerThread(m) == IF m = "discord" THEN "discord_worker" ELSE "ircclient_worker"

\* ------------------------------------------------------------------ events
\* An event dict as its constructor returns it: no "source" key. The fields
\* stand for the payload: the message's author, the acting user (deleter,
\* reacting user, IRC sender), the channel the notification came from, the
\* action flag of an IRC line, the msg of a log record.
Payload(id, type, author, actor, chan, action, msg) ==
    [id |-> id, type |-> type, source |-> NoKey, author |-> author,
     actor |-> actor, chan |-> chan, action |-> action, msg |-> msg]

InternalLog(msg) ==
    Payload(0, InternalLogTYPE, "none", "none", "none", FALSE, msg)
ConfigReload ==
    Payload(0, ConfigReloadTYPE, "none", "none", "none", FALSE, "none")
IRCMessage(id, who, chan, action) ==
    Payload(id, IRCMessageTYPE, who, who, chan, action, "none")
DiscordMessage(id, author, chan) ==
    Payload(id, DiscordMessageTYPE, author, author, chan, FALSE, "none")
DiscordMessageEdit(id, author, chan) ==
    Payload(id, DiscordMessageEditTYPE, author, author, chan, FALSE, "none")
DiscordMessageDelete(id, deleter, author, chan) ==
    Payload(id, DiscordMessageDeleteTYPE, author, deleter, chan, FALSE, "none")
DiscordReactionAdd(id, author, user, chan) ==
    Payload(id, DiscordReactionAddTYPE, author, user, chan, FALSE, "none")

\* transmitted = {"source": source}; transmitted.update(evt): a key of evt
\* replaces the one set first.
Transmitted(source, evt) ==
    IF evt.source = NoKey THEN [evt EXCEPT !.source = source] ELSE evt

\* A dispatch call that has not offered the event to anyone yet.
Frame(source, evt) == [evt |-> Transmitted(source, evt), i |-> 1]

\* ----------------------------------------------------------------- targets
DiscordAccepted == {IRCMessageTYPE}
IrcAccepted == {DiscordMessageTYPE, DiscordMessageEditTYPE,
                DiscordMessageDeleteTYPE, DiscordReactionAddTYPE}

\* Faulty variant: a target that declares interest in every event.
accept_event_any(t, evt) == "true"

\* accept_event of target t on evt: "true", "false" or "raise".
accept_event(t, evt) ==
    CASE t = "discord" -> IF evt.type \in DiscordAccepted THEN "true" ELSE "false"
      [] t = "ircclient" -> IF evt.type \in IrcAccepted THEN "true" ELSE "false"
      [] t = "t_base" -> "false"
      [] t = "t_accept_raises" -> "raise"
      [] OTHER -> "true"

\* push_event of target t raises.
push_raises(t) == t = "t_push_raises"

\* Faulty variant: queue.Queue(maxsize=1), whose put waits while it is full.
put_enabled_maxsize(q) == Len(q) < 1

\* queue.Queue() has no maxsize: put never waits, whatever the length.
put_enabled(q) == TRUE

\* queue.put(evt)
put(q, evt) == Append(q, evt)

\* Faulty variant: the worker reads the head of the queue and leaves it there.
get_rest_keeps(q) == q

\* evt = self.queue.get(): the event got, and what stays on the queue.
get_event(q) == Head(q)
get_rest(q) == Tail(q)

\* ---------------------------------------------------------------- logging
\* A call of logging.info / warning / error / exception: the root logger hands
\* the record to EventLoggingHandler.emit, when installed, which dispatches it
\* as an internal_log event from "logging".
LogCalls(msg) ==
    IF handler THEN <<Frame("logging", InternalLog(msg))>> ELSE <<>>

\* -------------------------------------------------------------- dispatcher
\* self.targets.append(target)
register_target(t) == targets' = Append(targets, t)

\* A target's call raised: logging.exception in the except clause. With the
\* handler installed the record is dispatched from inside the running call;
\* at the recursion limit RecursionError leaves the except clause of every
\* call on the way up to the thread's first caller. Gives <<stack, raised>>.
log_failure(th, more, rest) ==
    IF ~handler THEN << more \o rest, FALSE >>
    ELSE IF Len(stack[th]) >= RecursionLimit THEN << <<>>, TRUE >>
    ELSE << <<Frame("logging", InternalLog("Failed to pass event"))>>
                \o more \o rest, FALSE >>

\* The first target from position i on whose accept_event does not return
\* false, Len(targets) + 1 when there is none.
RECURSIVE next_taker(_, _)
next_taker(evt, i) ==
    IF i > Len(targets) THEN i
    ELSE IF accept_event(targets[i], evt) = "false" THEN next_taker(evt, i + 1)
    ELSE i

\* The positions a..b, in order.
Positions(a, b) == [x \in 1..(b - a + 1) |-> a + x - 1]

\* The loop "for tgt in self.targets" of the call that runs on thread th, up
\* to its next effect: the targets that decline the event are passed, then the
\* loop ends, or a target takes the event (push_event) or raises (the except
\* clause). After a push the targets that decline are passed as well.
dispatch_step(th) ==
    /\ stack[th] # <<>>
    /\ LET f == Head(stack[th])
           rest == Tail(stack[th])
           j == next_taker(f.evt, f.i)
           top == th = "caller" /\ rest = <<>>
       IN  IF j > Len(targets)
           THEN /\ stack' = [stack EXCEPT ![th] = rest]
                /\ offered' = IF top THEN offered \o Positions(f.i, Len(targets))
                              ELSE offered
                /\ UNCHANGED <<queue, pushed, raised>>
           ELSE LET t == targets[j]
                    r == accept_event(t, f.evt)
                    ok == r = "true" /\ ~push_raises(t)
                    k == IF ok THEN next_taker(f.evt, j + 1) ELSE j + 1
                    more == IF ok /\ k > Len(targets) THEN <<>>
                            ELSE <<[f EXCEPT !.i = k]>>
                    res == IF ok THEN << more \o rest, FALSE >>
                           ELSE log_failure(th, more, rest)
                IN  /\ ok => put_enabled(queue[t])
                    /\ queue' = IF ok THEN [queue EXCEPT ![t] = put(@, f.evt)]
                                ELSE queue
                    /\ pushed' = IF ok
                                 THEN [pushed EXCEPT ![t] = Append(@, f.evt.id)]
                                 ELSE pushed
                    /\ stack' = [stack EXCEPT ![th] = res[1]]
                    /\ raised' = IF res[2] THEN raised \cup {th} ELSE raised
                    /\ offered' = IF top THEN offered \o Positions(f.i, k - 1)
                                  ELSE offered
    /\ UNCHANGED <<cfg, handler, targets, pcMain, bots, worker, cur, nextId,
                   deq, calls, args, ret>>

\* ----------------------------------------------------------------- startup
\* Faulty variant: start() without its configuration check.
configured_always(m) == TRUE

\* "if not cfg.discord" / "if not cfg.irc": the module has a configuration.
configured(m) == cfg[m]

\* What main() does after module m's start() returns.
after_start(m) ==
    IF m = Modules[1] THEN <<Modules[2], "check">> ELSE <<"main", "started">>

MainIdle == stack["main"] = <<>> /\ "main" \notin raised

\* start(): without a configuration, a warning and nothing else; with one,
\* the "Starting ... client" record.
start_check(m) ==
    /\ pcMain = <<m, "check">>
    /\ MainIdle
    /\ IF configured(m)
       THEN /\ stack' = [stack EXCEPT !["main"] = LogCalls("Starting client")]
            /\ pcMain' = <<m, "bot">>
       ELSE /\ stack' = [stack EXCEPT !["main"] = LogCalls("Skipping module")]
            /\ pcMain' = after_start(m)
    /\ UNCHANGED <<cfg, handler, targets, bots, worker, cur, queue, raised,
                   nextId, pushed, deq, offered, calls, args, ret>>

\* utils.DaemonThread(target=bot.run / bot.start).start()
start_bot(m) ==
    /\ pcMain = <<m, "bot">>
    /\ MainIdle
    /\ bots' = bots \cup {m}
    /\ pcMain' = <<m, "register">>
    /\ UNCHANGED <<cfg, handler, targets, worker, cur, queue, stack, raised,
                   nextId, pushed, deq, offered, calls, args, ret>>

\* events.dispatcher.register_target(evt_target)
start_register(m) ==
    /\ pcMain = <<m, "register">>
    /\ register_target(m)
    /\ pcMain' = <<m, "worker">>
    /\ UNCHANGED <<cfg, handler, bots, worker, cur, queue, stack, raised,
                   nextId, pushed, deq, offered, calls, args, ret>>

\* utils.DaemonThread(target=evt_target.run).start()
start_worker(m) ==
    /\ pcMain = <<m, "worker">>
    /\ worker' = [worker EXCEPT ![m] = "get"]
    /\ pcMain' = after_start(m)
    /\ UNCHANGED <<cfg, handler, targets, bots, cur, queue, stack, raised,
                   nextId, pushed, deq, offered, calls, args, ret>>

discord_start ==
    start_check("discord") \/ start_bot("discord")
        \/ start_register("discord") \/ start_worker("discord")

ircclient_start ==
    start_check("ircclient") \/ start_bot("ircclient")
        \/ start_register("ircclient") \/ start_worker("ircclient")

\* logging.info("Modules started, waiting for events."), then the sleep loop.
main_started ==
    /\ pcMain = <<"main", "started">>
    /\ MainIdle
    /\ stack' = [stack EXCEPT !["main"] = LogCalls("Modules started")]
    /\ pcMain' = <<"main", "loop">>
    /\ UNCHANGED <<cfg, handler, targets, bots, worker, cur, queue, raised,
                   nextId, pushed, deq, offered, calls, args, ret>>

\* SIGHUP: reload_config(path, sighup=True) on the main thread, between two of
\* its calls: the file is read again (the same sections), the reload is
\* logged and a config_reload event is dispatched from "sighup".
reload_config ==
    /\ MainIdle
    /\ nextId <= MaxEvents
    /\ stack' = [stack EXCEPT !["main"] =
                    LogCalls("SIGHUP received") \o <<Frame("sighup", ConfigReload)>>]
    /\ nextId' = nextId + 1
    /\ UNCHANGED <<cfg, handler, targets, pcMain, bots, worker, cur, queue,
                   raised, pushed, deq, offered, calls, args, ret>>

\* ---------------------------------------------------------------- adapters
MessageTypes == {"default", "reply", "pins_add"}

\* The adapter thread of module m runs (bot.run / bot.start) and is between
\* two handlers: it runs one handler at a time, each to its end.
BotIdle(m) ==
    /\ m \in bots
    /\ stack[BotThread(m)] = <<>>
    /\ BotThread(m) \notin raised

\* A handler of module m's adapter thread runs up to its calls of the logger
\* and of the dispatcher: an error record and a return ("error"), the event
\* ("dispatch"), or an error record and then the event ("error_dispatch"). A
\* handler that returns at once ("return") changes nothing.
handler_ends(m, out, msg, evt) ==
    LET th == BotThread(m)
    IN  /\ out # "return"
        /\ nextId <= MaxEvents
        /\ stack' = [stack EXCEPT ![th] =
                        CASE out = "error" -> LogCalls(msg)
                          [] out = "dispatch" -> <<Frame(m, evt)>>
                          [] OTHER -> LogCalls(msg) \o <<Frame(m, evt)>>]
        /\ nextId' = nextId + 1
        /\ UNCHANGED <<cfg, handler, targets, pcMain, bots, worker, cur, queue,
                       raised, pushed, deq, offered, calls, args, ret>>

\* discord.Bot.on_message
on_message(author, chan, mtype) ==
    /\ BotIdle("discord")
    /\ handler_ends("discord",
          IF author = "bot" THEN "return"
          ELSE IF chan # CfgChannel THEN "return"
          ELSE IF mtype # "default" /\ mtype # "reply" THEN "return"
          ELSE IF author \in IgnoreUsers THEN "return"
          ELSE "dispatch",
          "none", DiscordMessage(nextId, author, chan))

\* discord.Bot.on_raw_message_edit
on_raw_message_edit(author, chan) ==
    /\ BotIdle("discord")
    /\ handler_ends("discord",
          IF chan # CfgChannel THEN "return" ELSE "dispatch",
          "none", DiscordMessageEdit(nextId, author, chan))

\* discord.Bot.on_raw_message_delete, by the way taken through its lookups:
\* get_channel finds nothing ("no_channel"); the message is neither cached nor
\* fetched ("no_message"); the payload has no guild_id ("no_guild_id");
\* get_guild finds nothing ("no_guild"); reading the audit log raises Forbidden
\* or HTTPException ("audit_fail"); the audit log holds a matching entry, by
\* user ("audit_match"), or none ("audit_nomatch").
DeleteLookups == {"no_channel", "no_message", "no_guild_id", "no_guild",
                  "audit_fail", "audit_match", "audit_nomatch"}

on_raw_message_delete(author, chan, look, user) ==
    LET out ==
            IF chan # CfgChannel THEN "return"
            ELSE IF look = "no_channel" THEN "error"
            ELSE IF look = "no_message" THEN "error"
            ELSE IF look = "no_guild_id" THEN "error_dispatch"
            ELSE IF look = "no_guild" THEN "error"
            ELSE IF look = "audit_fail" THEN "error"
            ELSE "dispatch"
        msg ==
            IF look = "no_channel" THEN "Channel not found"
            ELSE IF look = "no_message" THEN "Message not found"
            ELSE IF look = "no_guild_id" THEN "Guild not specified"
            ELSE IF look = "no_guild" THEN "Guild not found"
            ELSE "Failed to fetch audit logs"
        deleter == IF look = "audit_match" THEN user ELSE author
    IN  /\ BotIdle("discord")
        /\ handler_ends("discord", out, msg,
                        DiscordMessageDelete(nextId, deleter, author, chan))

\* discord.Bot.on_raw_reaction_add, by the way taken through its lookups:
\* get_channel finds nothing, fetch_message raises NotFound, the payload has
\* no member and fetch_user raises NotFound, or all are found ("found").
ReactionLookups == {"no_channel", "no_message", "no_user", "found"}

on_raw_reaction_add(author, user, chan, look) ==
    LET out ==
            IF chan # CfgChannel THEN "return"
            ELSE IF look # "found" THEN "error"
            ELSE "dispatch"
        msg ==
            IF look = "no_channel" THEN "Channel not found"
            ELSE IF look = "no_message" THEN "Message not found"
            ELSE "User not found"
    IN  /\ BotIdle("discord")
        /\ handler_ends("discord", out, msg,
                        DiscordReactionAdd(nextId, author, user, chan))

\* ircclient.Bot.on_channel_message
on_channel_message(who, channel) ==
    /\ BotIdle("ircclient")
    /\ handler_ends("ircclient",
          IF who \in IgnoreUsers THEN "return" ELSE "dispatch",
          "none", IRCMessage(nextId, who, channel, FALSE))

\* ircclient.Bot.on_action
on_action(who, target) ==
    /\ BotIdle("ircclient")
    /\ handler_ends("ircclient",
          IF who \in IgnoreUsers THEN "return" ELSE "dispatch",
          "none", IRCMessage(nextId, who, target, TRUE))

\* ----------------------------------------------------------------- workers
\* The types EventTarget.run of destination d hands to a relay method.
run_relays(d) ==
    IF d = "discord" THEN {IRCMessageTYPE}
    ELSE {DiscordMessageTYPE, DiscordMessageEditTYPE,
          DiscordMessageDeleteTYPE, DiscordReactionAddTYPE}

\* evt = self.queue.get(), then the branch on evt.type: a relay method is
\* entered, or "Got unknown event" is logged and the loop goes on.
worker_get(d) ==
    /\ worker[d] = "get"
    /\ stack[WorkerThread(d)] = <<>>
    /\ WorkerThread(d) \notin raised
    /\ queue[d] # <<>>
    /\ LET evt == get_event(queue[d])
       IN  /\ queue' = [queue EXCEPT ![d] = get_rest(@)]
           /\ deq' = [deq EXCEPT ![d] = Append(@, evt.id)]
           /\ IF evt.type \in run_relays(d)
              THEN /\ worker' = [worker EXCEPT ![d] = "relay"]
                   /\ cur' = [cur EXCEPT ![d] = <<[id |-> evt.id, type |-> evt.type]>>]
                   /\ stack' = stack
              ELSE /\ stack' = [stack EXCEPT ![WorkerThread(d)] =
                                   LogCalls("Got unknown event")]
                   /\ UNCHANGED <<worker, cur>>
    /\ UNCHANGED <<cfg, handler, targets, pcMain, bots, raised, nextId,
                   pushed, offered, calls, args, ret>>

\* The relay method returns (its send went through): back to queue.get().
worker_relay_returns(d) ==
    /\ worker[d] = "relay"
    /\ worker' = [worker EXCEPT ![d] = "get"]
    /\ cur' = [cur EXCEPT ![d] = <<>>]
    /\ UNCHANGED <<cfg, handler, targets, pcMain, bots, queue, stack, raised,
                   nextId, pushed, deq, offered, calls, args, ret>>

\* The relay method raises: run() is left, DaemonThread.run catches, logs
\* "Daemon thread failed" and sleeps one second.
worker_relay_raises(d) ==
    /\ worker[d] = "relay"
    /\ worker' = [worker EXCEPT ![d] = "sleep"]
    /\ cur' = [cur EXCEPT ![d] = <<>>]
    /\ stack' = [stack EXCEPT ![WorkerThread(d)] = LogCalls("Daemon thread failed")]
    /\ UNCHANGED <<cfg, handler, targets, pcMain, bots, queue, raised, nextId,
                   pushed, deq, offered, calls, args, ret>>

\* Faulty variant: DaemonThread.run without its "while True": after the failure
\* is logged the thread ends.
worker_ends(d) ==
    /\ worker[d] = "sleep"
    /\ stack[WorkerThread(d)] = <<>>
    /\ worker' = [worker EXCEPT ![d] = "off"]
    /\ UNCHANGED <<cfg, handler, targets, pcMain, bots, cur, queue, stack,
                   raised, nextId, pushed, deq, offered, calls, args, ret>>

\* The sleep ends: "while True" calls daemon_target, that is run(), again.
worker_restart(d) ==
    /\ worker[d] = "sleep"
    /\ stack[WorkerThread(d)] = <<>>
    /\ WorkerThread(d) \notin raised
    /\ worker' = [worker EXCEPT ![d] = "get"]
    /\ UNCHANGED <<cfg, handler, targets, pcMain, bots, cur, queue, stack,
                   raised, nextId, pushed, deq, offered, calls, args, ret>>

\* ----------------------------------------------------------- specification
\* The process after "Configuration loaded": setup_logging has installed the
\* handler, the configuration holds either section or not, nothing is started.
Init ==
    /\ cfg \in [Dests -> BOOLEAN]
    /\ handler = TRUE
    /\ targets = <<>>
    /\ pcMain = <<Modules[1], "check">>
    /\ bots = {}
    /\ worker = [d \in Dests |-> "off"]
    /\ cur = [d \in Dests |-> <<>>]
    /\ queue = [t \in AllTargets |-> <<>>]
    /\ stack = [th \in Threads |-> <<>>]
    /\ raised = {}
    /\ nextId = 1
    /\ pushed = [t \in AllTargets |-> <<>>]
    /\ deq = [d \in Dests |-> <<>>]
    /\ offered = <<>>
    /\ calls = <<>>
    /\ args = NoCall
    /\ ret = NotReturned

Next ==
    \/ discord_start
    \/ ircclient_start
    \/ main_started
    \/ reload_config
    \/ \E th \in Threads : dispatch_step(th)
    \/ \E a \in Users, c \in Channels, t \in MessageTypes : on_message(a, c, t)
    \/ \E a \in Users, c \in Channels : on_raw_message_edit(a, c)
    \/ \E a \in Users, c \in Channels, l \in DeleteLookups, u \in AuditUsers :
            on_raw_message_delete(a, c, l, u)
    \/ \E a \in Users, u \in ReactionUsers, c \in Channels, l \in ReactionLookups :
            on_raw_reaction_add(a, u, c, l)
    \/ \E w \in IrcUsers, c \in Channels : on_channel_message(w, c)
    \/ \E w \in IrcUsers, t \in ActionTargets : on_action(w, t)
    \/ \E d \in Dests : worker_get(d)
    \/ \E d \in Dests : worker_relay_returns(d)
    \/ \E d \in Dests : worker_relay_raises(d)
    \/ \E d \in Dests : worker_restart(d)

Spec == Init /\ [][Next]_vars

\* The scheduler runs every thread that can run. main() goes through the
\* start of the modules; a worker blocked in queue.get() gets the event once
\* there is one, a relay method comes to an end (it returns or raises), the
\* sleep ends, and a thread's own logging call goes on. Nothing is assumed of
\* the notifications the adapters receive nor of SIGHUP.
Fairness ==
    /\ WF_vars(discord_start \/ ircclient_start \/ main_started)
    /\ WF_vars(dispatch_step("main"))
    /\ \A d \in Dests :
        /\ WF_vars(worker_get(d))
        /\ WF_vars(worker_relay_returns(d) \/ worker_relay_raises(d))
        /\ WF_vars(worker_restart(d))
        /\ WF_vars(dispatch_step(WorkerThread(d)))

LiveSpec == Spec /\ Fairness

\* ------------------------------------------------- a Dispatcher under test
\* The Dispatcher class on its own, as a test drives it: targets of any kind
\* are registered, then events are dispatched from one thread. The root
\* logger has the EventLoggingHandler (as after setup_logging) or has not (as
\* in a bare interpreter).
TestSources == {"test"}
\* The last one is a dict that has a key "source" of its own.
TestEvents(id) ==
    {IRCMessage(id, "usr", CfgChannel, FALSE),
     DiscordMessage(id, "usr", CfgChannel),
     [InternalLog("test") EXCEPT !.id = id],
     [IRCMessage(id, "usr", CfgChannel, FALSE) EXCEPT !.source = "payload"]}

InitDisp ==
    /\ cfg = [d \in Dests |-> FALSE]
    /\ handler \in BOOLEAN
    /\ targets = <<>>
    /\ pcMain = <<"main", "loop">>
    /\ bots = {}
    /\ worker = [d \in Dests |-> "off"]
    /\ cur = [d \in Dests |-> <<>>]
    /\ queue = [t \in AllTargets |-> <<>>]
    /\ stack = [th \in Threads |-> <<>>]
    /\ raised = {}
    /\ nextId = 1
    /\ pushed = [t \in AllTargets |-> <<>>]
    /\ deq = [d \in Dests |-> <<>>]
    /\ offered = <<>>
    /\ calls = <<>>
    /\ args = NoCall
    /\ ret = NotReturned

\* dispatcher.register_target(t), before the first event.
test_register(t) ==
    /\ calls = <<>>
    /\ Len(targets) < MaxTargets
    /\ \A i \in 1..Len(targets) : targets[i] # t
    /\ register_target(t)
    /\ UNCHANGED <<cfg, handler, pcMain, bots, worker, cur, queue, stack,
                   raised, nextId, pushed, deq, offered, calls, args, ret>>

\* dispatcher.dispatch(source, evt), once the call before it has ended.
test_dispatch(source, evt) ==
    /\ stack["caller"] = <<>>
    /\ Len(calls) < MaxCalls
    /\ calls' = Append(calls, evt)
    /\ offered' = <<>>
    /\ raised' = {}
    /\ stack' = [stack EXCEPT !["caller"] = <<Frame(source, evt)>>]
    /\ UNCHANGED <<cfg, handler, targets, pcMain, bots, worker, cur, queue,
                   nextId, pushed, deq, args, ret>>

NextDisp ==
    \/ \E t \in AllTargets : test_register(t)
    \/ \E src \in TestSources, evt \in TestEvents(Len(calls) + 1) :
            test_dispatch(src, evt)
    \/ dispatch_step("caller")

SpecDisp == InitDisp /\ [][NextDisp]_vars

\* ----------------------------------------------- formatting for Discord
\* A text is a sequence of characters, a character a string.
\* BACKTICK stands for the character "`".
BACKSLASH == "\\"
LT == "<"
BACKTICK == "backtick"

\* The texts of at most n characters of the set chars.
TextsUpTo(chars, n) == UNION {[1..k -> chars] : k \in 0..n}

\* str.replace(ch, by) for a one-character ch: every ch becomes the text by.
RECURSIVE replace(_, _, _)
replace(text, ch, by) ==
    IF text = <<>> THEN <<>>
    ELSE (IF Head(text) = ch THEN by ELSE <<Head(text)>>)
             \o replace(Tail(text), ch, by)

\* Faulty variant: "<" is escaped before the backslashes are.
escape_lt_first(text) ==
    replace(replace(text, LT, <<BACKSLASH, LT>>),
            BACKSLASH, <<BACKSLASH, BACKSLASH>>)

\* format_irc_message, the escape step of a chunk: "Escape all backslashes
\* first", then "<".
escape(text) ==
    replace(replace(text, BACKSLASH, <<BACKSLASH, BACKSLASH>>),
            LT, <<BACKSLASH, LT>>)

\* The tags of a chunk that format_irc_message tests.
ChunkTags == {"reset", "bold", "monospace", "italics", "strikethrough",
              "underline"}

\* text = w + text + w, when the tag is on the chunk.
wrap(tags, tag, w, text) == IF tag \in tags THEN w \o text \o w ELSE text

\* Faulty variant: italics is wrapped before bold and monospace are, and
\* "reset" is tested after the wrapping.
format_chunk_reordered(chunk) ==
    LET text == escape(chunk.text)
        t1 == wrap(chunk.tags, "italics", <<"*">>, text)
        t2 == wrap(chunk.tags, "bold", <<"*", "*">>, t1)
        t3 == wrap(chunk.tags, "monospace", <<BACKTICK>>, t2)
        t4 == wrap(chunk.tags, "strikethrough", <<"~", "~">>, t3)
        t5 == wrap(chunk.tags, "underline", <<"_", "_">>, t4)
    IN  IF "reset" \in chunk.tags /\ chunk.tags = {"reset"} THEN text ELSE t5

\* The body of "for chunk in chunklist.children": what one chunk adds to ret.
format_chunk(chunk) ==
    LET text == escape(chunk.text)
        t1 == wrap(chunk.tags, "bold", <<"*", "*">>, text)
        t2 == wrap(chunk.tags, "monospace", <<BACKTICK>>, t1)
        t3 == wrap(chunk.tags, "italics", <<"*">>, t2)
        t4 == wrap(chunk.tags, "strikethrough", <<"~", "~">>, t3)
        t5 == wrap(chunk.tags, "underline", <<"_", "_">>, t4)
    IN  IF "reset" \in chunk.tags THEN text ELSE t5

\* Bot.format_irc_message on the chunks Tags.parse(msg) gave.
RECURSIVE format_irc_message(_)
format_irc_message(chunklist) ==
    IF chunklist = <<>> THEN <<>>
    ELSE format_chunk(Head(chunklist)) \o format_irc_message(Tail(chunklist))

\* Tags.parse cuts a text of n characters into k chunks at the positions
\* cut[1] <= ... <= cut[k-1]; a chunk may be empty.
Cuts(k, n) ==
    {cut \in [0..k -> 0..n] :
        /\ cut[0] = 0
        /\ cut[k] = n
        /\ \A i \in 1..k : cut[i - 1] <= cut[i]}

\* The chunk list of a text cut at cut, chunk i carrying the tags tags[i].
ChunkList(text, cut, tags) ==
    [i \in 1..Len(tags) |->
        [text |-> SubSeq(text, cut[i - 1] + 1, cut[i]), tags |-> tags[i]]]

\* The characters of the IRC texts that are formatted.
FormatChars == {"a", BACKSLASH, LT}

\* The bridge is not running while a text function is checked on its own.
bridge == <<cfg, handler, targets, pcMain, bots, worker, cur, queue, stack,
            raised, nextId, pushed, deq, offered, calls>>

NoBridge ==
    /\ cfg = [d \in Dests |-> FALSE]
    /\ handler = FALSE
    /\ targets = <<>>
    /\ pcMain = <<"main", "loop">>
    /\ bots = {}
    /\ worker = [d \in Dests |-> "off"]
    /\ cur = [d \in Dests |-> <<>>]
    /\ queue = [t \in AllTargets |-> <<>>]
    /\ stack = [th \in Threads |-> <<>>]
    /\ raised = {}
    /\ nextId = 1
    /\ pushed = [t \in AllTargets |-> <<>>]
    /\ deq = [d \in Dests |-> <<>>]
    /\ offered = <<>>
    /\ calls = <<>>

\* format_irc_message is called on a parsed IRC text and returns.
InitFormat ==
    /\ NoBridge
    /\ \E text \in TextsUpTo(FormatChars, MaxText), k \in 0..MaxChunks :
          \E cut \in Cuts(k, Len(text)), tags \in [1..k -> SUBSET ChunkTags] :
              args = [f |-> "format_irc_message",
                      chunklist |-> ChunkList(text, cut, tags)]
    /\ ret = NotReturned

format_irc_message_returns ==
    /\ args.f = "format_irc_message"
    /\ ret = NotReturned
    /\ ret' = format_irc_message(args.chunklist)
    /\ UNCHANGED <<bridge, args>>

SpecFormat == InitFormat /\ [][format_irc_message_returns]_vars

\* The same call on an unformatted or uniformly formatted IRC text (one chunk)
\* whose characters include "*", which Discord reads as markup.
MarkupChars == {"a", "*", LT}

InitMarkup ==
    /\ NoBridge
    /\ \E text \in TextsUpTo(MarkupChars, MaxMarkup), tags \in SUBSET ChunkTags :
          args = [f |-> "format_irc_message",
                  chunklist |-> <<[text |-> text, tags |-> tags]>>]
    /\ ret = NotReturned

SpecMarkup == InitMarkup /\ [][format_irc_message_returns]_vars

\* ---- relaying an IRC line to Discord

\* FULLWIDTH_ASTERISK stands for the character U+FF0A.
FULLWIDTH_ASTERISK == "fullwidth asterisk"

\* message_format % (who, what)
message_format(who, what, action) ==
    IF ~action
    THEN <<"*", "*", LT>> \o who \o <<">", "*", "*", " ">> \o what
    ELSE <<FULLWIDTH_ASTERISK, " ", "*", "*">> \o who \o <<"*", "*", " ">> \o what

\* The first position at or after from where text holds ch, 0 when none does.
Find(text, ch, from) ==
    IF \E i \in from..Len(text) : text[i] = ch
    THEN CHOOSE i \in from..Len(text) :
            text[i] = ch /\ \A j \in from..(i - 1) : text[j] # ch
    ELSE 0

\* channel.guild.get_member_named(username): the members of that name.
get_member_named(members, username) == {user \in members : user.name = username}

replacement_callback(members, username) ==
    IF get_member_named(members, username) = {} THEN username
    ELSE LET user == CHOOSE user \in get_member_named(members, username) : TRUE
         IN  <<LT, "@">> \o user.id \o <<">">>

\* re.sub(r"\[(.*?)\]", replacement_callback, text): the leftmost "[" that a
\* "]" follows opens a match which the first "]" after it closes; the search
\* goes on after that "]".
RECURSIVE sub_brackets(_, _)
sub_brackets(text, members) ==
    LET start == Find(text, "[", 1)
        end == IF start = 0 THEN 0 ELSE Find(text, "]", start + 1)
    IN  IF end = 0 THEN text
        ELSE SubSeq(text, 1, start - 1)
                \o replacement_callback(members, SubSeq(text, start + 1, end - 1))
                \o sub_brackets(SubSeq(text, end + 1, Len(text)), members)

\* The text that relay_irc_message hands to channel.send.
relay_irc_message(who, what, action, members) ==
    sub_brackets(
        message_format(who, format_irc_message(<<[text |-> what, tags |-> {}]>>),
                       action),
        members)

\* The characters of a relayed IRC line, the nicknames of its authors (an IRC
\* nickname may hold brackets) and the members of the Discord guild.
WhatChars == {"a", "b", "[", "]"}
Whos == {<<"a">>, <<"[", "b", "]">>}
Guild == {[name |-> <<"b">>, id |-> <<"4", "2">>]}

InitRelayIrc ==
    /\ NoBridge
    /\ \E who \in Whos, what \in TextsUpTo(WhatChars, MaxWhat),
          action \in BOOLEAN, members \in SUBSET Guild :
          args = [f |-> "relay_irc_message", who |-> who, what |-> what,
                  action |-> action, members |-> members]
    /\ ret = NotReturned

relay_irc_message_sends ==
    /\ args.f = "relay_irc_message"
    /\ ret = NotReturned
    /\ ret' = relay_irc_message(args.who, args.what, args.action, args.members)
    /\ UNCHANGED <<bridge, args>>

SpecRelayIrc == InitRelayIrc /\ [][relay_irc_message_sends]_vars

\* ---- sanitizing IRC nicknames

\* ZWNBSP stands for the code point U+FEFF.
ZWNBSP == "U+FEFF"

\* str.isalnum and, for re.IGNORECASE, the lower case of a character.
Digits == {"0", "1", "2", "3", "4", "5", "6", "7", "8", "9"}
Letters == {"a", "b", "c", "d", "e", "f", "g", "h", "i", "j", "k", "l", "m",
            "n", "o", "p", "q", "r", "s", "t", "u", "v", "w", "x", "y", "z",
            "A", "B"}
isalnum(ch) == ch \in Letters \cup Digits
lower(ch) == IF ch = "A" THEN "a" ELSE IF ch = "B" THEN "b" ELSE ch

sanitize_name(name) == <<name[1], ZWNBSP>> \o Tail(name)

\* Faulty variant: the shorter nickname first.
precedes_shorter(n, o) == Len(n) <= Len(o)

\* key=len, reverse=True: n is not after o in the sorted list.
precedes(n, o) == Len(o) <= Len(n)

\* sorted([n for n in nicks if n], key=len, reverse=True)
RECURSIVE sorted_nicks(_)
sorted_nicks(nicks) ==
    IF nicks \ {<<>>} = {} THEN <<>>
    ELSE LET n == CHOOSE n \in nicks \ {<<>>} :
                    \A o \in nicks \ {<<>>} : precedes(n, o)
         IN  <<n>> \o sorted_nicks(nicks \ {<<>>, n})

\* re.escape(nick) matches text at pos, whatever the case of the letters.
nick_at(text, pos, nick) ==
    /\ pos + Len(nick) - 1 <= Len(text)
    /\ \A i \in 1..Len(nick) : lower(text[pos + i - 1]) = lower(nick[i])

\* The least number of a set, 0 when the set is empty.
Least(S) == IF S = {} THEN 0 ELSE CHOOSE k \in S : \A j \in S : k <= j

\* full_pattern at pos: the first alternative "[nick]" with the nicknames in
\* their sorted order, then the second alternative "nick" in the same order.
\* start and end are the first and last character of the match, group the
\* capturing group that matched (0: no match at pos).
NoMatch == [group |-> 0, start |-> 0, end |-> 0]

full_pattern(sorted, text, pos) ==
    LET InBrackets(k) ==
            /\ text[pos] = "["
            /\ nick_at(text, pos + 1, sorted[k])
            /\ pos + Len(sorted[k]) + 1 <= Len(text)
            /\ text[pos + Len(sorted[k]) + 1] = "]"
        Bare(k) == nick_at(text, pos, sorted[k])
        k1 == Least({k \in 1..Len(sorted) : InBrackets(k)})
        k2 == Least({k \in 1..Len(sorted) : Bare(k)})
    IN  IF k1 # 0
        THEN [group |-> 1, start |-> pos, end |-> pos + Len(sorted[k1]) + 1]
        ELSE IF k2 # 0
        THEN [group |-> 2, start |-> pos, end |-> pos + Len(sorted[k2]) - 1]
        ELSE NoMatch

\* Faulty variant: the character after the match is not looked at.
nick_replacement_callback_no_next(text, match) ==
    IF match.group = 1 THEN SubSeq(text, match.start + 1, match.end - 1)
    ELSE LET found_str == SubSeq(text, match.start, match.end)
         IN  IF isalnum(found_str[1]) /\ match.start > 1
                    /\ isalnum(text[match.start - 1])
             THEN found_str
             ELSE sanitize_name(found_str)

\* replacement_callback of sanitize_irc_names; text is the original text.
nick_replacement_callback(text, match) ==
    IF match.group = 1 THEN SubSeq(text, match.start + 1, match.end - 1)
    ELSE LET found_str == SubSeq(text, match.start, match.end)
         IN  IF isalnum(found_str[1]) /\ match.start > 1
                    /\ isalnum(text[match.start - 1])
             THEN found_str
             ELSE IF isalnum(found_str[Len(found_str)]) /\ match.end < Len(text)
                        /\ isalnum(text[match.end + 1])
             THEN found_str
             ELSE sanitize_name(found_str)

\* full_pattern.sub(replacement_callback, text) from pos on: the pieces of the
\* result, each the replacement of a match or a character no match covers.
RECURSIVE sub_pieces(_, _, _)
sub_pieces(sorted, text, pos) ==
    IF pos > Len(text) THEN <<>>
    ELSE LET match == full_pattern(sorted, text, pos)
         IN  IF match.group = 0
             THEN <<[group |-> 0, start |-> pos, end |-> pos, out |-> <<text[pos]>>]>>
                    \o sub_pieces(sorted, text, pos + 1)
             ELSE <<[group |-> match.group, start |-> match.start,
                     end |-> match.end,
                     out |-> nick_replacement_callback(text, match)]>>
                    \o sub_pieces(sorted, text, match.end + 1)

RECURSIVE joined(_)
joined(pieces) ==
    IF pieces = <<>> THEN <<>> ELSE Head(pieces).out \o joined(Tail(pieces))

sanitize_irc_names(text, nicks) ==
    IF sorted_nicks(nicks) = <<>> THEN text
    ELSE joined(sub_pieces(sorted_nicks(nicks), text, 1))

\* The characters of the text and the nicknames of the IRC channel's users.
LineChars == {"a", "b", "_", "[", "]"}
NickPool == {<<"a">>, <<"b">>, <<"B">>, <<"a", "b">>, <<"_">>, <<"a", "[">>}

InitSanitize ==
    /\ NoBridge
    /\ \E text \in TextsUpTo(LineChars, MaxLine), nicks \in SUBSET NickPool :
          /\ Cardinality(nicks) <= MaxNicks
          /\ args = [f |-> "sanitize_irc_names", text |-> text, nicks |-> nicks]
    /\ ret = NotReturned

sanitize_irc_names_returns ==
    /\ args.f = "sanitize_irc_names"
    /\ ret = NotReturned
    /\ ret' = sanitize_irc_names(args.text, args.nicks)
    /\ UNCHANGED <<bridge, args>>

SpecSanitize == InitSanitize /\ [][sanitize_irc_names_returns]_vars

\* ---- relaying a Discord message to IRC

\* Tags.Bold(text): text between the codes that switch bold on and off.
BOLD_ON == "bold on"
BOLD_OFF == "bold off"
Bold(text) == <<BOLD_ON>> \o text \o <<BOLD_OFF>>

\* text.replace(old, new): every occurrence of old, from left to right.
RECURSIVE str_replace(_, _, _)
str_replace(text, old, new) ==
    IF Len(text) < Len(old) \/ old = <<>> THEN text
    ELSE IF SubSeq(text, 1, Len(old)) = old
    THEN new \o str_replace(SubSeq(text, Len(old) + 1, Len(text)), old, new)
    ELSE <<Head(text)>> \o str_replace(Tail(text), old, new)

\* text holds part, character after character.
Contains(text, part) ==
    \E i \in 0..(Len(text) - Len(part)) : SubSeq(text, i + 1, i + Len(part)) = part

\* "<@%s>" % user.id, "<@&%s>" % role.id, "<#%s>" % channel.id
user_token(id) == <<LT, "@">> \o id \o <<">">>
role_token(id) == <<LT, "@", "&">> \o id \o <<">">>
channel_token(id) == <<LT, "#">> \o id \o <<">">>

\* The three loops over msg.mentions, msg.role_mentions, msg.channel_mentions.
RECURSIVE replace_user_mentions(_, _)
replace_user_mentions(text, mentions) ==
    IF mentions = <<>> THEN text
    ELSE replace_user_mentions(
            str_replace(text, user_token(Head(mentions).id),
                        <<"@">> \o sanitize_name(Head(mentions).name)),
            Tail(mentions))

RECURSIVE replace_role_mentions(_, _)
replace_role_mentions(text, role_mentions) ==
    IF role_mentions = <<>> THEN text
    ELSE replace_role_mentions(
            str_replace(text, role_token(Head(role_mentions).id),
                        <<"@">> \o sanitize_name(Head(role_mentions).name)),
            Tail(role_mentions))

RECURSIVE replace_channel_mentions(_, _)
replace_channel_mentions(text, channel_mentions) ==
    IF channel_mentions = <<>> THEN text
    ELSE replace_channel_mentions(
            str_replace(text, channel_token(Head(channel_mentions).id),
                        <<"#">> \o sanitize_name(Head(channel_mentions).name)),
            Tail(channel_mentions))

\* The longest run of characters of the set chars that text holds from pos
\* on: the position after it.
RECURSIVE RunEnd(_, _, _)
RunEnd(text, pos, chars) ==
    IF pos <= Len(text) /\ text[pos] \in chars THEN RunEnd(text, pos + 1, chars)
    ELSE pos

\* The characters that \w and \d match.
WordChars == Letters \cup Digits \cup {"_"}

\* '[custom emoji "%s"]' % Tags.Bold(match.group(1))
emoji_replacement_callback(name) ==
    <<"[", "c", "u", "s", "t", "o", "m", " ", "e", "m", "o", "j", "i", " ", "\"">>
        \o Bold(name) \o <<"\"", "]">>

\* re.sub(r"<:(\w+):\d+>", emoji_replacement_callback, text)
RECURSIVE sub_emoji(_)
sub_emoji(text) ==
    IF text = <<>> THEN <<>>
    ELSE LET name_end == RunEnd(text, 3, WordChars)
             id_end == RunEnd(text, name_end + 1, Digits)
         IN  IF /\ Len(text) >= 2
                /\ text[1] = LT
                /\ text[2] = ":"
                /\ name_end > 3
                /\ name_end <= Len(text)
                /\ text[name_end] = ":"
                /\ id_end > name_end + 1
                /\ id_end <= Len(text)
                /\ text[id_end] = ">"
             THEN emoji_replacement_callback(SubSeq(text, 3, name_end - 1))
                    \o sub_emoji(SubSeq(text, id_end + 1, Len(text)))
             ELSE <<Head(text)>> \o sub_emoji(Tail(text))

\* The line that relay_discord_message sends for a message that is no edit,
\* refers to no other message and carries nothing but its content.
relay_discord_message(msg, irc_nicks) ==
    LET text == IF msg.content # <<>>
                THEN sub_emoji(
                        replace_channel_mentions(
                            replace_role_mentions(
                                replace_user_mentions(
                                    sanitize_irc_names(msg.content, irc_nicks),
                                    msg.mentions),
                                msg.role_mentions),
                            msg.channel_mentions))
                ELSE <<>>
    IN  Bold(sanitize_name(msg.author)) \o Bold(<<":">>) \o <<" ">> \o text

\* The users, roles (a role's name is any text) and channels of the guild,
\* the fragments of a message's content, the nicknames in the IRC channel.
GuildUsers == {[id |-> <<"1">>, name |-> <<"u">>]}
GuildRoles == {[id |-> <<"2">>, name |-> <<"r">>],
               [id |-> <<"2">>, name |-> <<"r">> \o channel_token(<<"3">>)]}
GuildChannels == {[id |-> <<"3">>, name |-> <<"c">>]}
Fragments == {<<"a">>, <<"_">>, user_token(<<"1">>), role_token(<<"2">>),
              channel_token(<<"3">>), <<LT, ":", "a", ":", "1", ">">>}
IrcNicks == {<<"a">>, <<"u">>}

\* The lists of at most one element of a set.
AtMostOne(S) == {<<>>} \cup {<<x>> : x \in S}

\* msg.role_mentions holds roles that the content mentions, and
\* msg.channel_mentions is read off the content: the channels whose token it
\* holds; msg.mentions may hold the author of a message replied to as well.
Mentioned(content, role_mentions, channel_mentions) ==
    /\ \A i \in 1..Len(role_mentions) :
          Contains(content, role_token(role_mentions[i].id))
    /\ \A channel \in GuildChannels :
          Contains(content, channel_token(channel.id))
            <=> \E i \in 1..Len(channel_mentions) : channel_mentions[i] = channel

RECURSIVE Flatten(_)
Flatten(fragments) ==
    IF fragments = <<>> THEN <<>> ELSE Head(fragments) \o Flatten(Tail(fragments))

InitRelayDiscord ==
    /\ NoBridge
    /\ \E fragments \in TextsUpTo(Fragments, MaxContent),
          mentions \in AtMostOne(GuildUsers),
          role_mentions \in AtMostOne(GuildRoles),
          channel_mentions \in AtMostOne(GuildChannels),
          irc_nicks \in SUBSET IrcNicks :
          /\ Mentioned(Flatten(fragments), role_mentions, channel_mentions)
          /\ args = [f |-> "relay_discord_message",
                     msg |-> [author |-> <<"u">>,
                              content |-> Flatten(fragments),
                              mentions |-> mentions,
                              role_mentions |-> role_mentions,
                              channel_mentions |-> channel_mentions],
                     irc_nicks |-> irc_nicks]
    /\ ret = NotReturned

relay_discord_message_sends ==
    /\ args.f = "relay_discord_message"
    /\ ret = NotReturned
    /\ ret' = relay_discord_message(args.msg, args.irc_nicks)
    /\ UNCHANGED <<bridge, args>>

SpecRelayDiscord == InitRelayDiscord /\ [][relay_discord_message_sends]_vars

\* ---- the sender of a message on Discord

\* The last position from from on where text holds pat, 0 when none does.
FindLast(text, pat, from) ==
    LET at == {p \in from..(Len(text) - Len(pat) + 1) :
                  SubSeq(text, p, p + Len(pat) - 1) = pat}
    IN  IF at = {} THEN 0 ELSE CHOOSE p \in at : \A q \in at : q <= p

\* re.match(r"^\*\*<(.*)>\*\* ", content): the group is greedy, it ends
\* at the last ">** " of the content. Gives the position of that ">** ", 0
\* when the content does not match.
sender_match(content) ==
    IF Len(content) >= 3 /\ SubSeq(content, 1, 3) = <<"*", "*", LT>>
    THEN FindLast(content, <<">", "*", "*", " ">>, 4)
    ELSE 0

\* mentioned: "parent_message and bot_user.mentioned_in(parent_message)".
extract_sender_from_discord_message(message, bot_user, mentioned) ==
    IF message.author.id # bot_user.id THEN sanitize_name(message.author.name)
    ELSE LET end == sender_match(message.content)
             nick == SubSeq(message.content, 4, end - 1)
         IN  IF end = 0 THEN <<"?", "?", "?">>
             ELSE IF mentioned THEN nick
             ELSE sanitize_name(nick)

\* The bridge's own user on Discord.
BridgeUser == [id |-> <<"7">>, name |-> <<"b", "r">>]

\* The characters of a relayed IRC line whose sender is looked up afterwards.
SenderChars == {"a", ">", "*", " "}

InitSender ==
    /\ NoBridge
    /\ \E who \in Whos, what \in TextsUpTo(SenderChars, MaxWhat),
          action \in BOOLEAN, members \in SUBSET Guild :
          args = [f |-> "relay_irc_message", who |-> who, what |-> what,
                  action |-> action, members |-> members]
    /\ ret = NotReturned

\* A Discord user replies to the message the bridge has sent for the line;
\* the reply may mention the bridge. args.line keeps the line.
extract_sender_returns ==
    /\ args.f = "relay_irc_message"
    /\ ret # NotReturned
    /\ \E mentioned \in BOOLEAN :
          LET message == [author |-> BridgeUser, content |-> ret]
          IN  /\ args' = [f |-> "extract_sender_from_discord_message",
                          message |-> message, mentioned |-> mentioned,
                          line |-> args]
              /\ ret' = extract_sender_from_discord_message(message, BridgeUser,
                                                            mentioned)
    /\ UNCHANGED bridge

NextSender == relay_irc_message_sends \/ extract_sender_returns

SpecSender == InitSender /\ [][NextSender]_vars

\* ------------------------------------------------------------------ claims
Range(q) == {q[i] : i \in DOMAIN q}
Ids(q) == [i \in DOMAIN q |-> q[i].id]
IsPrefix(a, b) == Len(a) <= Len(b) /\ \A i \in 1..Len(a) : a[i] = b[i]
NoDuplicates(q) == \A i, j \in DOMAIN q : q[i] = q[j] => i = j
\* Every event a thread is dispatching and every event on a queue or in a
\* worker's hands.
Dispatching == UNION {{stack[th][i].evt : i \in DOMAIN stack[th]} : th \in Threads}
Queued == UNION {Range(queue[t]) : t \in AllTargets}
\* The event of the test caller's latest call, as the targets get it.
Sent == Transmitted("test", calls[Len(calls)])
CallEnded == calls # <<>> /\ stack["caller"] = <<>>
Raises(t, evt) ==
    accept_event(t, evt) = "raise" \/ (accept_event(t, evt) = "true" /\ push_raises(t))
Takes(t, evt) == accept_event(t, evt) = "true" /\ ~push_raises(t)

\* C1: fan-out isolation. When a dispatch call in which a registered target's
\* accept_event or push_event raised has ended, it has not raised to its caller
\* and every registered target whose accept_event returns true (and whose
\* push_event works) has the event on its queue.
C1_FanOutIsolation ==
    (CallEnded /\ \E i \in 1..Len(targets) : Raises(targets[i], Sent)) =>
        /\ "caller" \notin raised
        /\ \A i \in 1..Len(targets) :
              Takes(targets[i], Sent) => Sent \in Range(queue[targets[i]])

\* C2: FIFO, at-most-once consumption. On every destination the events the
\* worker has got so far, followed by those still queued, are the events pushed,
\* in the order pushed, and no event was pushed or got twice.
C2_FifoAtMostOnce ==
    \A d \in Dests :
        /\ deq[d] \o Ids(queue[d]) = pushed[d]
        /\ NoDuplicates(pushed[d])
        /\ NoDuplicates(deq[d])
        /\ cur[d] # <<>> => deq[d][Len(deq[d])] = cur[d][1].id

\* A worker failed on an event, sleeps, and the next event waits on its queue.
C2_Witness ==
    \E d \in Dests :
        worker[d] = "sleep" /\ Len(deq[d]) = 1 /\ Len(queue[d]) = 1

\* C3: the worker survives a bad event. A worker that was started is never
\* torn down; an event the worker has got, the one its relay method raised on
\* included, is not back on the queue; and every worker is again and again at
\* queue.get() with an empty queue and nothing in its hands, so that after a
\* failure the sleep ends, run() is entered again and every event that waited
\* on the queue is got and its processing ended.
C3_WorkerSurvives ==
    /\ [][\A d \in Dests : worker[d] # "off" => worker'[d] # "off"]_vars
    /\ [](\A d \in Dests : \A id \in Range(deq[d]) :
              id \notin Range(Ids(queue[d])))
    /\ \A d \in Dests :
          []<>(worker[d] \in {"off", "get"} /\ queue[d] = <<>> /\ cur[d] = <<>>)

\* A worker sleeps after a failure while another event waits on its queue.
C3_Witness ==
    \E d \in Dests :
        /\ worker[d] = "sleep"
        /\ stack[WorkerThread(d)] = <<>>
        /\ deq[d] # <<>>
        /\ queue[d] # <<>>

\* C4: non-blocking dispatch. Whatever the queues hold and whatever the
\* workers do, every dispatch call that is under way can take its next step.
C4_DispatchNeverBlocks ==
    \A th \in Threads : stack[th] # <<>> => ENABLED dispatch_step(th)

\* A call is about to push onto a destination whose worker is inside its send.
C4_Witness ==
    \E th \in Threads, d \in Dests :
        /\ stack[th] # <<>>
        /\ worker[d] = "relay"
        /\ next_taker(Head(stack[th]).evt, Head(stack[th]).i) <= Len(targets)
        /\ targets[next_taker(Head(stack[th]).evt, Head(stack[th]).i)] = d

\* C5: queue type invariant. The Discord destination's queue (and its worker)
\* holds irc_message events only, the IRC destination's the four Discord event
\* types only; internal_log and config_reload events are on no destination.
C5_QueueTypes ==
    /\ \A e \in Range(queue["discord"]) :
          e.type = IRCMessageTYPE /\ e.source = "ircclient"
    /\ \A e \in Range(queue["ircclient"]) :
          /\ e.type \in {DiscordMessageTYPE, DiscordMessageEditTYPE,
                         DiscordMessageDeleteTYPE, DiscordReactionAddTYPE}
          /\ e.source = "discord"
    /\ \A e \in Range(cur["discord"]) : e.type = IRCMessageTYPE
    /\ \A e \in Range(cur["ircclient"]) :
          e.type \in {DiscordMessageTYPE, DiscordMessageEditTYPE,
                      DiscordMessageDeleteTYPE, DiscordReactionAddTYPE}
    /\ \A d \in Dests : \A e \in Range(queue[d]) :
          e.type \notin {InternalLogTYPE, ConfigReloadTYPE}

\* The IRC destination holds an event of the other platform while a
\* config_reload event is dispatched to the two registered targets.
C5_Witness ==
    /\ Len(targets) = 2
    /\ queue["ircclient"] # <<>>
    /\ \E e \in Dispatching : e.type = ConfigReloadTYPE

\* C6: dispatch order is registration order. When a dispatch call has ended,
\* the event was offered to the registered targets in the order of their
\* registration, each exactly once, also when a target raised.
C6_RegistrationOrder ==
    CallEnded => offered = Positions(1, Len(targets))

\* C7: excluded authors. No message, edit, deletion or reaction event that is
\* dispatched or queued is about a message of the bridge's own identity or of
\* an identity on the ignore list.
C7_ExcludedAuthors ==
    \A e \in Dispatching \cup Queued :
        e.source = "discord" => e.author \notin {"bot"} \cup IgnoreUsers

\* C8: single-channel filter. Every event an adapter dispatches comes from the
\* configured channel of its platform.
C8_SingleChannel ==
    \A e \in Dispatching \cup Queued :
        e.source \in {"discord", "ircclient"} => e.chan = CfgChannel

\* C9: delete attribution degrades instead of dropping. When the audit-log
\* lookup of a deletion fails (the handler logs "Failed to fetch audit logs"),
\* the message-delete event is dispatched after the log record.
C9_DeleteDegrades ==
    LET st == stack["discord_bot"]
    IN  (st # <<>> /\ Head(st).evt.msg = "Failed to fetch audit logs") =>
            \E i \in DOMAIN st : st[i].evt.type = DiscordMessageDeleteTYPE

\* C10: skipped destination at startup. A module without configuration never
\* gets a target, an adapter thread or a worker; once main() has started the
\* modules the registry is exactly the configured destinations in main()'s
\* order, each once, every one with its adapter thread and its worker; and the
\* registry only ever grows.
StartupDone == pcMain[1] = "main"

C10_RegistryState ==
    /\ \A m \in Dests : ~cfg[m] =>
          /\ m \notin Range(targets)
          /\ m \notin bots
          /\ worker[m] = "off"
    /\ StartupDone =>
          /\ targets = SelectSeq(Modules, LAMBDA m : cfg[m])
          /\ \A m \in Dests : cfg[m] => m \in bots /\ worker[m] # "off"

C10_SkippedDestination ==
    [](C10_RegistryState) /\ [][IsPrefix(targets, targets')]_vars

\* Startup has ended with Discord skipped and IRC registered and running.
C10_Witness ==
    /\ StartupDone
    /\ ~cfg["discord"]
    /\ cfg["ircclient"]
    /\ targets = <<"ircclient">>
    /\ worker["ircclient"] = "get"
    /\ bots = {"ircclient"}
    /\ \E e \in Dispatching : e.type = IRCMessageTYPE

\* --------------------------------------------- claims on the text functions
Returned == ret # NotReturned
\* The texts of a list, one after the other.
RECURSIVE Concat(_)
Concat(texts) == IF texts = <<>> THEN <<>> ELSE Head(texts) \o Concat(Tail(texts))
\* Character by character: a backslash is written twice, "<" gets one
\* backslash before it, any other character stands as it is.
EscapedChars(text) ==
    Concat([i \in DOMAIN text |->
                IF text[i] = BACKSLASH THEN <<BACKSLASH, BACKSLASH>>
                ELSE IF text[i] = LT THEN <<BACKSLASH, LT>>
                ELSE <<text[i]>>])
\* What is wrapped around a chunk with these tags: its opening and closing half.
Wrapper(tags) == format_chunk([text |-> <<>>, tags |-> tags])
Opening(tags) == SubSeq(Wrapper(tags), 1, Len(Wrapper(tags)) \div 2)
Closing(tags) ==
    SubSeq(Wrapper(tags), Len(Wrapper(tags)) \div 2 + 1, Len(Wrapper(tags)))

\* C12: escape once, backslash first. The output is, chunk by chunk, the
\* chunk's wrapper around its text in which every backslash is doubled and
\* every "<" has exactly one backslash added before it: nothing of the wrapper
\* is escaped and nothing is escaped twice. Escaping an escaped text again
\* changes it whenever the text holds a backslash or a "<".
C12_EscapeOnce ==
    (args.f = "format_irc_message" /\ Returned) =>
        /\ ret = Concat([i \in DOMAIN args.chunklist |->
                    Opening(args.chunklist[i].tags)
                        \o EscapedChars(args.chunklist[i].text)
                        \o Closing(args.chunklist[i].tags)])
        /\ \A i \in DOMAIN args.chunklist :
              LET text == args.chunklist[i].text
              IN  (\E j \in DOMAIN text : text[j] \in {BACKSLASH, LT}) =>
                      escape(escape(text)) # escape(text)

\* A bold chunk whose text is a backslash followed by "<" was formatted.
C12_Witness ==
    /\ args.f = "format_irc_message"
    /\ args.chunklist = <<[text |-> <<BACKSLASH, LT>>, tags |-> {"bold"}]>>
    /\ ret = <<"*", "*", BACKSLASH, BACKSLASH, BACKSLASH, LT, "*", "*">>

\* The wrappers of the tags of a chunk, the outermost first.
Outermost(tags) ==
    (IF "underline" \in tags THEN <<"_", "_">> ELSE <<>>)
        \o (IF "strikethrough" \in tags THEN <<"~", "~">> ELSE <<>>)
        \o (IF "italics" \in tags THEN <<"*">> ELSE <<>>)
        \o (IF "monospace" \in tags THEN <<BACKTICK>> ELSE <<>>)
        \o (IF "bold" \in tags THEN <<"*", "*">> ELSE <<>>)
Reverse(text) == [i \in DOMAIN text |-> text[Len(text) + 1 - i]]

\* C13: style nesting order. Chunk by chunk the output is the escaped text
\* alone when "reset" is on the chunk, and otherwise the escaped text wrapped,
\* from the inside out, in bold, monospace, italics, strikethrough and
\* underline, each only when its tag is on the chunk; an empty text is wrapped
\* all the same.
C13_NestingOrder ==
    (args.f = "format_irc_message" /\ Returned) =>
        ret = Concat([i \in DOMAIN args.chunklist |->
                LET chunk == args.chunklist[i]
                IN  IF "reset" \in chunk.tags THEN escape(chunk.text)
                    ELSE Outermost(chunk.tags) \o escape(chunk.text)
                             \o Reverse(Outermost(chunk.tags))])

\* An empty chunk with the five styles was formatted.
C13_Witness ==
    /\ args.f = "format_irc_message"
    /\ args.chunklist = <<[text |-> <<>>, tags |-> ChunkTags \ {"reset"}]>>
    /\ ret = <<"_", "_", "~", "~", "*", BACKTICK, "*", "*",
               "*", "*", BACKTICK, "*", "~", "~", "_", "_">>

\* What Discord reads in a message text, as far as "*" goes: a backslash makes
\* the next character literal, "**" is the bold delimiter, a single "*" the
\* italics delimiter, anything else is literal.
RECURSIVE Lex(_)
Lex(out) ==
    IF out = <<>> THEN <<>>
    ELSE IF Head(out) = BACKSLASH /\ Len(out) >= 2
         THEN <<"literal">> \o Lex(Tail(Tail(out)))
    ELSE IF Head(out) = "*" /\ Len(out) >= 2 /\ out[2] = "*"
         THEN <<"**">> \o Lex(Tail(Tail(out)))
    ELSE IF Head(out) = "*" THEN <<"*">> \o Lex(Tail(out))
    ELSE <<"literal">> \o Lex(Tail(out))

\* A delimiter styles the text when it opens before and closes after at least
\* one literal character.
Delimits(tokens, delimiter) ==
    \E i, j \in 1..Len(tokens) :
        /\ i < j
        /\ tokens[i] = delimiter
        /\ tokens[j] = delimiter
        /\ \E k \in (i + 1)..(j - 1) : tokens[k] = "literal"

DiscordStyles(out) ==
    {tag \in {"bold", "italics"} :
        Delimits(Lex(out), IF tag = "bold" THEN "**" ELSE "*")}

\* C11: no spurious styling: Discord, reading what format_irc_message returned
\* for a chunk, styles no text with an attribute that the chunk did not carry.
C11_NoSpuriousStyling ==
    (args.f = "format_irc_message" /\ Returned /\ Len(args.chunklist) = 1)
        => DiscordStyles(ret) \subseteq args.chunklist[1].tags

\* C14: brackets never leak: the text that relay_irc_message hands to
\* channel.send holds no "[" that a "]" follows.
C14_BracketsNeverLeak ==
    (args.f = "relay_irc_message" /\ Returned)
        => ~\E i, j \in 1..Len(ret) : i < j /\ ret[i] = "[" /\ ret[j] = "]"

\* The characters of text other than "[" and "]".
NoBracket(text) == \A i \in 1..Len(text) : text[i] \notin {"[", "]"}

\* C15: outbound mention resolution: a non-action line is sent with its author
\* rendered as who, and a token [name] of its text is sent as <@id> when a
\* member is named name and as the bare name when none is, the rest of the
\* text being sent whatever the lookup gave.
C15_MentionResolution ==
    (args.f = "relay_irc_message" /\ Returned /\ ~args.action)
        => LET author == <<"*", "*", LT>> \o args.who \o <<">", "*", "*", " ">>
           IN  /\ Len(ret) >= Len(author)
               /\ SubSeq(ret, 1, Len(author)) = author
               /\ \A i, j \in 1..Len(args.what) :
                     LET pre == SubSeq(args.what, 1, i - 1)
                         name == SubSeq(args.what, i + 1, j - 1)
                         post == SubSeq(args.what, j + 1, Len(args.what))
                     IN  (/\ i < j
                          /\ args.what[i] = "["
                          /\ args.what[j] = "]"
                          /\ NoBracket(pre \o name \o post))
                            => ret = author \o pre
                                    \o (IF \E user \in args.members : user.name = name
                                        THEN <<LT, "@", "4", "2", ">">>
                                        ELSE name)
                                    \o post

\* ---- claims on sanitize_irc_names
LowerText(text) == [i \in DOMAIN text |-> lower(text[i])]

\* The nickname n occurs in text from position p on, in any case of its letters.
Occurs(text, p, n) ==
    /\ n # <<>>
    /\ p + Len(n) - 1 <= Len(text)
    /\ LowerText(SubSeq(text, p, p + Len(n) - 1)) = LowerText(n)

\* The spans <<p, e>> of the occurrences of the nicknames in text.
Spans(text, nicks) ==
    {<<pn[1], pn[1] + Len(pn[2]) - 1>> :
        pn \in {pn \in (1..Len(text)) \X nicks : Occurs(text, pn[1], pn[2])}}

\* text without the characters that the sanitizer adds or takes away.
IsKept(ch) == ch \notin {ZWNBSP, "[", "]"}
Strip(text) == SelectSeq(text, IsKept)

\* out holds the characters p..e of text as they were, no code point added
\* after the first of them or after the last, at the place where they stood.
Unmodified(text, p, e, out) ==
    \E k \in 0..(Len(out) - (e - p + 1)) :
        /\ SubSeq(out, k + 1, k + e - p + 1) = SubSeq(text, p, e)
        /\ Strip(SubSeq(out, 1, k)) = Strip(SubSeq(text, 1, p - 1))
        /\ Strip(SubSeq(out, k + e - p + 2, Len(out)))
              = Strip(SubSeq(text, e + 1, Len(text)))
        /\ (k + e - p + 1 < Len(out) => out[k + e - p + 2] # ZWNBSP)

AlnumBefore(text, p) == p > 1 /\ isalnum(text[p - 1])
AlnumAfter(text, e) == e < Len(text) /\ isalnum(text[e + 1])

InsertAfterFirst(name) == <<name[1], ZWNBSP>> \o SubSeq(name, 2, Len(name))

\* The characters p..e of text are a word of their own and not the inside of
\* a bracketed token.
Standalone(text, p, e) ==
    /\ ~AlnumBefore(text, p)
    /\ ~AlnumAfter(text, e)
    /\ ~(p > 1 /\ text[p - 1] = "[" /\ e < Len(text) /\ text[e + 1] = "]")

\* out holds by in the place of the characters p..e of text.
ReplacedBy(text, p, e, by, out) ==
    \E k \in 0..(Len(out) - Len(by)) :
        /\ SubSeq(out, k + 1, k + Len(by)) = by
        /\ Strip(SubSeq(out, 1, k)) = Strip(SubSeq(text, 1, p - 1))
        /\ Strip(SubSeq(out, k + Len(by) + 1, Len(out)))
              = Strip(SubSeq(text, e + 1, Len(text)))

\* C17: ping suppression: where a nickname of any length stands in the text
\* as a word of its own, the output holds it with one zero-width code point
\* after its first character, and what the output holds there does not
\* contain the nickname as it was written.
C17_PingSuppressed ==
    (args.f = "sanitize_irc_names" /\ Returned)
        => \A span \in Spans(args.text, args.nicks) :
              LET found == SubSeq(args.text, span[1], span[2])
              IN  Standalone(args.text, span[1], span[2])
                    => /\ ReplacedBy(args.text, span[1], span[2],
                                     InsertAfterFirst(found), ret)
                       /\ ~Contains(InsertAfterFirst(found), found)

\* How many times text holds ch.
Count(text, ch) == Cardinality({i \in 1..Len(text) : text[i] = ch})

\* out holds the characters p..e of text as they were written in the place of
\* the bracketed token [p..e], the two brackets gone and no code point added.
PassedThrough(text, p, e, out) ==
    /\ \E k \in 0..(Len(out) - (e - p + 1)) :
          /\ SubSeq(out, k + 1, k + e - p + 1) = SubSeq(text, p, e)
          /\ Strip(SubSeq(out, 1, k)) = Strip(SubSeq(text, 1, p - 2))
          /\ Strip(SubSeq(out, k + e - p + 2, Len(out)))
                = Strip(SubSeq(text, e + 2, Len(text)))
          /\ (k + e - p + 1 < Len(out) => out[k + e - p + 2] # ZWNBSP)
    /\ Count(out, "[") < Count(text, "[")
    /\ Count(out, "]") < Count(text, "]")

\* C18: explicit-ping escape hatch: where the text holds [n] for a nickname n,
\* the output holds the bare name as it was written, without the two brackets
\* and without a zero-width code point, whatever stands around the brackets.
C18_EscapeHatch ==
    (args.f = "sanitize_irc_names" /\ Returned)
        => \A span \in Spans(args.text, args.nicks) :
              (/\ span[1] > 1
               /\ args.text[span[1] - 1] = "["
               /\ span[2] < Len(args.text)
               /\ args.text[span[2] + 1] = "]")
                => PassedThrough(args.text, span[1], span[2], ret)

\* C19: longest-match precedence: a match of the sanitizer is the longest
\* nickname that occurs where the match starts (between the brackets, for a
\* bracketed match), never a shorter one that occurs there too; and a
\* nickname that stands as a word of its own, overlapped by nothing but
\* shorter nicknames starting where it starts, is sanitized as a whole.
C19_LongestMatch ==
    (args.f = "sanitize_irc_names" /\ Returned)
        => LET pieces == sub_pieces(sorted_nicks(args.nicks), args.text, 1)
           IN  /\ ret = joined(pieces)
               /\ \A i \in 1..Len(pieces), n \in args.nicks :
                     /\ (pieces[i].group = 2 /\ Occurs(args.text, pieces[i].start, n))
                            => Len(n) <= pieces[i].end - pieces[i].start + 1
                     /\ (/\ pieces[i].group = 1
                          /\ Occurs(args.text, pieces[i].start + 1, n)
                          /\ pieces[i].start + Len(n) + 1 <= Len(args.text)
                          /\ args.text[pieces[i].start + Len(n) + 1] = "]")
                            => Len(n) <= pieces[i].end - pieces[i].start - 1
               /\ \A span \in Spans(args.text, args.nicks) :
                     (/\ Standalone(args.text, span[1], span[2])
                      /\ \A other \in Spans(args.text, args.nicks) \ {span} :
                            \/ other[2] < span[1]
                            \/ span[2] < other[1]
                            \/ other[1] = span[1] /\ other[2] < span[2])
                        => ReplacedBy(args.text, span[1], span[2],
                                      InsertAfterFirst(SubSeq(args.text, span[1], span[2])),
                                      ret)

C19_Witness ==
    /\ args.f = "sanitize_irc_names"
    /\ args.text = <<"a", "b">>
    /\ args.nicks = {<<"a">>, <<"a", "b">>}
    /\ ret = <<"a", ZWNBSP, "b">>

\* ---- claims on relay_discord_message
\* C20: inbound mention substitution: for every user, role and channel of the
\* message's mention lists whose token the content holds, the line sent to
\* IRC holds the sanitized name behind "@" (user, role) or "#" (channel) and
\* no longer holds the token.
C20_MentionSubstitution ==
    (args.f = "relay_discord_message" /\ Returned)
        => /\ \A i \in 1..Len(args.msg.mentions) :
                 LET user == args.msg.mentions[i]
                 IN  Contains(args.msg.content, user_token(user.id))
                       => /\ Contains(ret, <<"@">> \o InsertAfterFirst(user.name))
                          /\ ~Contains(ret, user_token(user.id))
           /\ \A i \in 1..Len(args.msg.role_mentions) :
                 LET role == args.msg.role_mentions[i]
                 IN  Contains(args.msg.content, role_token(role.id))
                       => /\ Contains(ret, <<"@">> \o InsertAfterFirst(role.name))
                          /\ ~Contains(ret, role_token(role.id))
           /\ \A i \in 1..Len(args.msg.channel_mentions) :
                 LET channel == args.msg.channel_mentions[i]
                 IN  Contains(args.msg.content, channel_token(channel.id))
                       => /\ Contains(ret, <<"#">> \o InsertAfterFirst(channel.name))
                          /\ ~Contains(ret, channel_token(channel.id))

\* ---- claims on the dispatcher, continued
\* C21: source tagging. Every event of a test call (its id is the number of
\* the call; the log records dispatched on the way have id 0), as a target is
\* offered it or holds it on its queue, has the source the call was given,
\* also when the caller's dict has a key "source"; and no dispatch call
\* changes the caller's dict or the registry.
C21_SourceTagging ==
    /\ [](\A e \in Dispatching \cup Queued : e.id >= 1 => e.source \in TestSources)
    /\ [][calls # <<>> => (targets' = targets /\ IsPrefix(calls, calls'))]_vars

\* d's target is in the registry.
Registered(d) == \E j \in 1..Len(targets) : targets[j] = d

\* C22: no dispatch before registration completes. While an adapter thread is
\* inside a dispatch call for an event of its platform, the target of every
\* configured destination that accepts the event is in the registry, so the
\* event is offered to it.
C22_NoDispatchBeforeRegistration ==
    \A m \in Dests : \A i \in DOMAIN stack[BotThread(m)] :
        LET evt == stack[BotThread(m)][i].evt
        IN  evt.source = m
                => \A d \in Dests :
                       cfg[d] /\ accept_event(d, evt) = "true" => Registered(d)

\* C23: dispatch terminates under failure logging. With the handler installed,
\* the dispatch calls that logging a target's failure nests inside a dispatch
\* call stay below the interpreter's recursion limit: every call ends by
\* returning, none by RecursionError.
C23_DispatchTerminates ==
    handler => \A th \in Threads :
                   Len(stack[th]) <= RecursionLimit /\ th \notin raised

\* ---- claims on extract_sender_from_discord_message

\* C24: attribution round-trip. The sender extracted from the message that
\* the bridge has sent for an IRC line is the line's who, sanitized, or who
\* itself when the replying message mentions the bridge; for action
\* lines as for plain lines, whatever the body holds.
C24_AttributionRoundTrip ==
    args.f = "extract_sender_from_discord_message" =>
        ret = IF args.mentioned THEN args.line.who
              ELSE sanitize_name(args.line.who)

====
